---- MODULE Spec2Model ----
(***************************************************************************)
(* Per-user task queue of the Terabox-Drive bot: the QueueManager          *)
(* (utils/queue_manager.py), the link handler with its consumer loop       *)
(* (handlers/link_handler.py) and the cancel callbacks                     *)
(* (handlers/cancel.py).  Everything runs on one asyncio event loop, so a  *)
(* step of the model is the code between two suspension points.            *)
(***************************************************************************)
EXTENDS Integers, Sequences, FiniteSets, Bags, TLC

\* ------------------------------------------------------------------ bounds
MaxTasks == 2   \* Task objects process_links creates in the whole system
MaxUsers == 2   \* Telegram users
MaxFifo  == 5   \* Task objects queued when the manager is driven directly
BatchLinks == 3 \* links in the one message of the three-link scenario
MaxDirect == 2  \* Task objects created when every operation is called directly
MaxLive == 2    \* Task objects created in the system whose calls return

Users   == 1..MaxUsers
\* A task_id (a uuid4 in the code) is the pair of the owning user and the
\* number of the task among that user's tasks.
TaskIds == Users \X (1..(IF MaxFifo > MaxTasks THEN MaxFifo ELSE MaxTasks))
NoTask  == <<0, 0>>

NonTerminal == {"queued", "downloading", "uploading"}
Terminal    == {"completed", "failed", "cancelled"}

VARIABLES
    status,          \* Task.status of every Task object ("none": not created
                     \* yet, "gone": no longer referenced, reclaimed by Python)
    queues,          \* QueueManager.queues
    active_tasks,    \* QueueManager.active_tasks (NoTask: no entry)
    user_tasks,      \* QueueManager.user_tasks
    cancelled_users, \* QueueManager.cancelled_users
    processing,      \* QueueManager.processing
    next_id,         \* per user, the number of Task objects created so far
    waiting,         \* process_links handlers suspended before line 159
    loops,           \* per user, the bag of live process_queue coroutines
    enqueued,        \* history of direct calls: tasks add_task accepted, per user
    dequeued,        \* history of direct calls: tasks get_next_task returned
    cancel_req,      \* history: tasks cancel_current_task hit while in flight
    cancel_all_called, \* history: users whose flag cancel_all_tasks has set
    drained          \* history: tasks cancel_all_tasks took out of a FIFO

vars == <<status, queues, active_tasks, user_tasks, cancelled_users,
          processing, next_id, waiting, loops, enqueued, dequeued,
          cancel_req, cancel_all_called, drained>>

hist == <<enqueued, dequeued, cancel_req, cancel_all_called, drained>>

\* ----------------------------------------------------------------- helpers
\* f[1] + ... + f[n]
RECURSIVE Sum(_, _)
Sum(f, n) == IF n = 0 THEN 0 ELSE f[n] + Sum(f, n - 1)

Range(s) == {s[i] : i \in 1..Len(s)}

\* The manager together with the Task objects it refers to.
QM ==
    [status |-> status, queues |-> queues,
     active_tasks |-> active_tasks, user_tasks |-> user_tasks,
     cancelled_users |-> cancelled_users, processing |-> processing]

SetQM(q) ==
    /\ status' = q.status
    /\ queues' = q.queues
    /\ active_tasks' = q.active_tasks
    /\ user_tasks' = q.user_tasks
    /\ cancelled_users' = q.cancelled_users
    /\ processing' = q.processing

\* Task.user_id
user_id(t) == t[1]

\* Task(task_id=..., user_id=...): status defaults to "queued".
Task(q, t) ==
    [q EXCEPT !.status[t] = "queued"]

\* ------------------------------------------------ QueueManager operations
\* add_task that puts the task at the front of the FIFO.
add_task_prepend(q, t) ==
    LET u == user_id(t) IN
    [q   |-> [q EXCEPT !.user_tasks[u] = Append(@, t),
                       !.queues[u] = <<t>> \o @],
     ret |-> TRUE]

\* add_task without the put of line 37.
add_task_history_only(q, t) ==
    LET u == user_id(t) IN
    [q   |-> [q EXCEPT !.user_tasks[u] = Append(@, t)],
     ret |-> TRUE]

add_task(q, t) ==
    LET u == user_id(t) IN
    [q   |-> [q EXCEPT !.user_tasks[u] = Append(@, t),
                       !.queues[u] = Append(@, t)],
     ret |-> TRUE]

RECURSIVE add_multiple_tasks(_, _)
add_multiple_tasks(q, tasks) ==
    IF tasks = <<>> THEN [q |-> q, ret |-> 0]
    ELSE LET r    == add_task(q, Head(tasks))
             rest == add_multiple_tasks(r.q, Tail(tasks))
         IN [q |-> rest.q, ret |-> rest.ret + (IF r.ret THEN 1 ELSE 0)]

\* get_next_task that leaves the task it returns in the FIFO.
get_next_task_peek(q, u) ==
    IF q.queues[u] = <<>> THEN [q |-> q, ret |-> NoTask]
    ELSE [q   |-> [q EXCEPT !.active_tasks[u] = Head(q.queues[u])],
          ret |-> Head(q.queues[u])]

\* get_next_task that puts the task it returns back at the end of the FIFO.
get_next_task_requeue(q, u) ==
    IF q.queues[u] = <<>> THEN [q |-> q, ret |-> NoTask]
    ELSE [q   |-> [q EXCEPT !.queues[u] = Append(Tail(@), Head(@)),
                            !.active_tasks[u] = Head(q.queues[u])],
          ret |-> Head(q.queues[u])]

get_next_task(q, u) ==
    IF q.queues[u] = <<>> THEN [q |-> q, ret |-> NoTask]
    ELSE LET task == Head(q.queues[u]) IN
         [q   |-> [q EXCEPT !.queues[u] = Tail(@), !.active_tasks[u] = task],
          ret |-> task]

\* get_user_tasks without the status filter of line 75.
get_user_tasks_unfiltered(q, u) == q.user_tasks[u]

get_user_tasks(q, u) ==
    SelectSeq(q.user_tasks[u], LAMBDA t : q.status[t] \in NonTerminal)

\* get_queue_position without the "+ 1" of line 90.
get_queue_position_from_zero(q, u) ==
    LET tasks == q.user_tasks[u] IN
    <<Len(SelectSeq(tasks, LAMBDA t : q.status[t] \in Terminal)), Len(tasks)>>

get_queue_position(q, u) ==
    LET tasks     == q.user_tasks[u]
        completed == Len(SelectSeq(tasks, LAMBDA t : q.status[t] \in Terminal))
    IN <<completed + 1, Len(tasks)>>

CountStatus(q, u, S) ==
    Len(SelectSeq(q.user_tasks[u], LAMBDA t : q.status[t] \in S))

\* get_stats whose 'pending' counts only the tasks that are still queued.
get_stats_pending_queued_only(q, u) ==
    [total     |-> Len(q.user_tasks[u]),
     completed |-> CountStatus(q, u, {"completed"}),
     failed    |-> CountStatus(q, u, {"failed"}),
     cancelled |-> CountStatus(q, u, {"cancelled"}),
     pending   |-> CountStatus(q, u, {"queued"})]

get_stats(q, u) ==
    [total     |-> Len(q.user_tasks[u]),
     completed |-> CountStatus(q, u, {"completed"}),
     failed    |-> CountStatus(q, u, {"failed"}),
     cancelled |-> CountStatus(q, u, {"cancelled"}),
     pending   |-> CountStatus(q, u, {"queued", "downloading", "uploading"})]

\* cancel_current_task with the flag set outside the `if`.
cancel_current_task_flag_always(q, u) ==
    IF q.active_tasks[u] # NoTask
    THEN [q   |-> [q EXCEPT !.status[q.active_tasks[u]] = "cancelled",
                            !.cancelled_users = @ \cup {u}],
          ret |-> TRUE]
    ELSE [q |-> [q EXCEPT !.cancelled_users = @ \cup {u}], ret |-> FALSE]

cancel_current_task(q, u) ==
    IF q.active_tasks[u] # NoTask
    THEN [q   |-> [q EXCEPT !.status[q.active_tasks[u]] = "cancelled",
                            !.cancelled_users = @ \cup {u}],
          ret |-> TRUE]
    ELSE [q |-> q, ret |-> FALSE]

\* cancel_all_tasks without the status test of line 122: every task of the
\* history list is marked.
cancel_all_tasks_mark_all(q, u) ==
    LET act    == q.active_tasks[u]
        marked == (IF act # NoTask THEN {act} ELSE {})
                  \cup Range(q.queues[u]) \cup Range(q.user_tasks[u])
    IN [q   |-> [q EXCEPT !.cancelled_users = @ \cup {u},
                          !.queues[u] = <<>>,
                          !.status = [t \in DOMAIN @ |->
                                        IF t \in marked THEN "cancelled" ELSE @[t]]],
        ret |-> (IF act # NoTask THEN 1 ELSE 0) + Len(q.queues[u])]

\* cancel_all_tasks that marks the pending tasks but leaves them in the FIFO.
cancel_all_tasks_no_drain(q, u) ==
    LET act    == q.active_tasks[u]
        marked == (IF act # NoTask THEN {act} ELSE {})
                  \cup {t \in Range(q.user_tasks[u]) : q.status[t] \in NonTerminal}
    IN [q   |-> [q EXCEPT !.cancelled_users = @ \cup {u},
                          !.status = [t \in DOMAIN @ |->
                                        IF t \in marked THEN "cancelled" ELSE @[t]]],
        ret |-> (IF act # NoTask THEN 1 ELSE 0) + Len(q.queues[u])]

\* cancel_all_tasks that drains the FIFO without marking the drained tasks.
cancel_all_tasks_drain_only(q, u) ==
    LET act == q.active_tasks[u] IN
    [q   |-> [q EXCEPT !.cancelled_users = @ \cup {u},
                       !.queues[u] = <<>>,
                       !.status = [t \in DOMAIN @ |->
                                     IF t = act THEN "cancelled" ELSE @[t]]],
     ret |-> (IF act # NoTask THEN 1 ELSE 0) + Len(q.queues[u])]

cancel_all_tasks(q, u) ==
    LET act    == q.active_tasks[u]
        drain  == Range(q.queues[u])
        marked == (IF act # NoTask THEN {act} ELSE {}) \cup drain
                  \cup {t \in Range(q.user_tasks[u]) : q.status[t] \in NonTerminal}
    IN [q   |-> [q EXCEPT !.cancelled_users = @ \cup {u},
                          !.queues[u] = <<>>,
                          !.status = [t \in DOMAIN @ |->
                                        IF t \in marked THEN "cancelled" ELSE @[t]]],
        ret |-> (IF act # NoTask THEN 1 ELSE 0) + Len(q.queues[u])]

is_cancelled(q, u) == u \in q.cancelled_users

\* clear_cancelled that empties the set instead of discarding u (line 132).
clear_cancelled_everyone(q, u) == [q EXCEPT !.cancelled_users = {}]

clear_cancelled(q, u) == [q EXCEPT !.cancelled_users = @ \ {u}]

\* mark_completed that writes the status without looking the id up in the
\* user's history list (lines 136-137).
mark_completed_any_id(q, u, task_id, success) ==
    LET q1 == [q EXCEPT !.status[task_id] =
                           IF success THEN "completed" ELSE "failed"]
    IN IF q1.active_tasks[u] # NoTask /\ q1.active_tasks[u] = task_id
       THEN [q1 EXCEPT !.active_tasks[u] = NoTask]
       ELSE q1

mark_completed(q, u, task_id, success) ==
    LET q1 == IF task_id \in Range(q.user_tasks[u])
              THEN [q EXCEPT !.status[task_id] =
                                IF success THEN "completed" ELSE "failed"]
              ELSE q
    IN IF q1.active_tasks[u] # NoTask /\ q1.active_tasks[u] = task_id
       THEN [q1 EXCEPT !.active_tasks[u] = NoTask]
       ELSE q1

\* clear_user_tasks without the cancelled_users.discard of line 147.
clear_user_tasks_keep_flag(q, u) ==
    [q EXCEPT !.user_tasks[u] = <<>>,
              !.queues[u] = <<>>,
              !.active_tasks[u] = NoTask]

\* clear_user_tasks that empties cancelled_users instead of discarding u.
clear_user_tasks_all_flags(q, u) ==
    [q EXCEPT !.user_tasks[u] = <<>>,
              !.cancelled_users = {},
              !.queues[u] = <<>>,
              !.active_tasks[u] = NoTask]

\* clear_user_tasks without the draining loop of lines 150-154.
clear_user_tasks_keep_queue(q, u) ==
    [q EXCEPT !.user_tasks[u] = <<>>,
              !.cancelled_users = @ \ {u},
              !.active_tasks[u] = NoTask]

\* clear_user_tasks without the deletion of the active slot (lines 156-157).
clear_user_tasks_keep_active(q, u) ==
    [q EXCEPT !.user_tasks[u] = <<>>,
              !.cancelled_users = @ \ {u},
              !.queues[u] = <<>>]

clear_user_tasks(q, u) ==
    [q EXCEPT !.user_tasks[u] = <<>>,
              !.cancelled_users = @ \ {u},
              !.queues[u] = <<>>,
              !.active_tasks[u] = NoTask]

is_processing(q, u) == q.processing[u]

\* set_processing that never resets the flag (line 234 without effect).
set_processing_never_reset(q, u, b) == [q EXCEPT !.processing[u] = TRUE]

set_processing(q, u, b) == [q EXCEPT !.processing[u] = b]

\* ------------------------------------------------------------------- Init
Init ==
    /\ status = [t \in TaskIds |-> "none"]
    /\ queues = [u \in Users |-> <<>>]
    /\ active_tasks = [u \in Users |-> NoTask]
    /\ user_tasks = [u \in Users |-> <<>>]
    /\ cancelled_users = {}
    /\ processing = [u \in Users |-> FALSE]
    /\ next_id = [u \in Users |-> 0]
    /\ waiting = [u \in Users |-> 0]
    /\ loops = [u \in Users |-> EmptyBag]
    /\ enqueued = [u \in Users |-> <<>>]
    /\ dequeued = [u \in Users |-> <<>>]
    /\ cancel_req = {}
    /\ cancel_all_called = {}
    /\ drained = {}

\* ------------------------------------------------- process_queue coroutines
\* A coroutine is the pair of its position and its local variable `task`:
\*   "created"   scheduled by asyncio.create_task, not yet run
\*   "edit"      awaiting status_message.edit_text (line 190), task dequeued
\*   "download"  inside process_single_task, awaiting the downloader
\*   "upload"    inside process_single_task, awaiting the uploader
\*   "summary"   left the while loop, awaiting the summary edit (line 215)
\*   "error"     in the except handler, awaiting the error edit (line 229)
\* A coroutine that has run its finally block is gone.
Loop(pc, task) == [pc |-> pc, task |-> task]

Running(u) == BagToSet(loops[u])

\* Task t is inside process_single_task, at the downloader or the uploader.
InFlight(u, t) ==
    Loop("download", t) \in Running(u) \/ Loop("upload", t) \in Running(u)

\* Reference counting: a Task object that is in no user's history list, FIFO
\* or active slot and is no coroutine's local `task` (L: the coroutines) has
\* been reclaimed; nothing can read or write its fields any more.
Collect(q, L) ==
    [q EXCEPT !.status = [t \in DOMAIN @ |->
        IF /\ @[t] \notin {"none", "gone"}
           /\ LET u == user_id(t) IN
              /\ t \notin Range(q.user_tasks[u])
              /\ t \notin Range(q.queues[u])
              /\ t # q.active_tasks[u]
              /\ \A r \in BagToSet(L[u]) : r.task # t
        THEN "gone" ELSE @[t]]]

Spawn(b, r) == b (+) SetToBag({r})

Step(b, r, r2) == (b (-) SetToBag({r})) (+) SetToBag({r2})

Exit(b, r) == b (-) SetToBag({r})

\* --------------------------------------------------- handlers/link_handler
\* process_links up to its first suspension after the tasks are queued
\* (lines 119-144): n supported links become n Task objects with fresh ids,
\* add_multiple_tasks queues them, and the handler then awaits the database
\* and the confirmation reply.
RECURSIVE NewTasks(_, _)
NewTasks(q, ids) ==
    IF ids = <<>> THEN q ELSE NewTasks(Task(q, Head(ids)), Tail(ids))

\* Task objects created so far.
Created == Sum(next_id, MaxUsers)

links_queued(u, n) ==
    /\ LET ids == [i \in 1..n |-> <<u, next_id[u] + i>>]
           r   == add_multiple_tasks(NewTasks(QM, ids), ids)
       IN SetQM(r.q)
    /\ next_id' = [next_id EXCEPT ![u] = @ + n]
    /\ waiting' = [waiting EXCEPT ![u] = @ + 1]
    /\ UNCHANGED <<loops, hist>>

\* A message with n links arrives for u, while fewer than MaxTasks Task
\* objects have been created.
process_links(u, n) ==
    /\ Created + n <= MaxTasks
    /\ links_queued(u, n)

\* A process_links of u has queued its links (line 133) and has not reached
\* line 159.  For a freemium user it awaits user_db.increment_usage (lines
\* 139-141) before it builds the confirmation text of lines 144-149, so the
\* pair of get_queue_position it shows is read in whatever state the manager
\* is in when that call returns: any state in which the handler is pending.
increment_usage_pending(u) == waiting[u] > 0

\* process_links lines 158-160, resumed after the reply was sent:
\* asyncio.create_task only schedules process_queue, nothing of it runs yet.
start_processing(u) ==
    /\ waiting[u] > 0
    /\ waiting' = [waiting EXCEPT ![u] = @ - 1]
    /\ loops' = IF ~is_processing(QM, u)
                THEN [loops EXCEPT ![u] = Spawn(@, Loop("created", NoTask))]
                ELSE loops
    /\ UNCHANGED <<status, queues, active_tasks, user_tasks,
                   cancelled_users, processing, next_id, hist>>

\* One pass over the head of `while True` in process_queue (lines 174-195),
\* up to the suspension in status_message.edit_text or to the break.
\* loop_iteration without the is_cancelled check of lines 176-178.
loop_iteration_no_check(q, u) ==
    LET r == get_next_task(q, u) IN
    IF r.ret = NoTask
    THEN [q |-> r.q, pc |-> "summary", task |-> NoTask]
    ELSE [q |-> r.q, pc |-> "edit", task |-> r.ret]

loop_iteration(q, u) ==
    IF is_cancelled(q, u)
    THEN [q |-> clear_cancelled(q, u), pc |-> "summary", task |-> NoTask]
    ELSE LET r == get_next_task(q, u) IN
         IF r.ret = NoTask
         THEN [q |-> r.q, pc |-> "summary", task |-> NoTask]
         ELSE [q |-> r.q, pc |-> "edit", task |-> r.ret]

\* Coroutine `from` of user u has run loop_iteration with result r.
LoopMoves(u, from, r) ==
    LET L == [loops EXCEPT ![u] = Step(@, from, Loop(r.pc, r.task))] IN
    /\ SetQM(Collect(r.q, L))
    /\ loops' = L
    /\ cancel_all_called' = cancel_all_called \cap cancelled_users'
    /\ drained' = {t \in drained : status'[t] # "gone"}

\* process_queue from its first line to its first suspension (164-195).
process_queue_start(u) ==
    /\ Loop("created", NoTask) \in Running(u)
    /\ LoopMoves(u, Loop("created", NoTask),
                 loop_iteration(set_processing(QM, u, TRUE), u))
    /\ UNCHANGED <<next_id, waiting, enqueued, dequeued, cancel_req>>

\* After the status edit: process_single_task lines 239-252.  Either
\* create_download_dir raises before the try block (raised = TRUE), which
\* leaves process_queue at its `except Exception` handler, or the task is
\* set to "downloading" and the downloader is awaited.
process_single_task_start(u, t, raised) ==
    /\ Loop("edit", t) \in Running(u)
    /\ IF raised
       THEN /\ loops' = [loops EXCEPT ![u] = Step(@, Loop("edit", t), Loop("error", t))]
            /\ UNCHANGED status
       ELSE /\ loops' = [loops EXCEPT ![u] = Step(@, Loop("edit", t), Loop("download", t))]
            /\ status' = [status EXCEPT ![t] = "downloading"]
    /\ UNCHANGED <<queues, active_tasks, user_tasks, cancelled_users,
                   processing, next_id, waiting, hist>>

\* process_single_task has returned `success` for task t of coroutine `from`:
\* process_queue lines 202-209 and then the next pass of the loop.
task_returns(u, from, success) ==
    /\ LoopMoves(u, from, loop_iteration(mark_completed(QM, u, from.task, success), u))
    /\ cancel_req' = cancel_req \ {from.task}

\* The downloader returned (lines 254-293).  On failure process_single_task
\* returns (False, None); on success the task is set to "uploading" and the
\* uploader is awaited.  The awaits between the two touch no shared state.
download_returns(u, t, success) ==
    /\ Loop("download", t) \in Running(u)
    /\ IF success
       THEN /\ loops' = [loops EXCEPT ![u] = Step(@, Loop("download", t), Loop("upload", t))]
            /\ status' = [status EXCEPT ![t] = "uploading"]
            /\ UNCHANGED <<queues, active_tasks, user_tasks,
                           cancelled_users, processing, cancel_req,
                           cancel_all_called, drained>>
       ELSE task_returns(u, Loop("download", t), FALSE)
    /\ UNCHANGED <<next_id, waiting, enqueued, dequeued>>

\* The uploader returned `success` (lines 306-337).  The message edit that
\* follows (line 310 or 322) is inside the try block: when it raises
\* (raised = TRUE) the `except Exception` handler of line 330 returns
\* (False, None); otherwise process_single_task returns `success`.
upload_returns(u, t, success, raised) ==
    /\ Loop("upload", t) \in Running(u)
    /\ task_returns(u, Loop("upload", t), success /\ ~raised)
    /\ UNCHANGED <<next_id, waiting, enqueued, dequeued>>

\* The `finally` block of process_queue (lines 233-235), reached after the
\* summary edit or after the error edit of the except handler.
process_queue_finally(u, r) ==
    /\ r \in Running(u)
    /\ r.pc \in {"summary", "error"}
    /\ LET L == [loops EXCEPT ![u] = Exit(@, r)]
           q == clear_user_tasks(set_processing(QM, u, FALSE), u)
       IN /\ SetQM(Collect(q, L))
          /\ loops' = L
          /\ cancel_all_called' = cancel_all_called \cap cancelled_users'
          /\ drained' = {t \in drained : status'[t] # "gone"}
    /\ cancel_req' = cancel_req \ {r.task}
    /\ UNCHANGED <<next_id, waiting, enqueued, dequeued>>

\* --------------------------------------------------------- handlers/cancel
\* cancel_current_callback (lines 40-57) for the caller's own user id.
cancel_current_callback(u) ==
    LET r == cancel_current_task(QM, u) IN
    /\ SetQM(r.q)
    /\ cancel_req' = IF r.ret /\ InFlight(u, active_tasks[u])
                     THEN cancel_req \cup {active_tasks[u]}
                     ELSE cancel_req
    /\ UNCHANGED <<next_id, waiting, loops, enqueued, dequeued,
                   cancel_all_called, drained>>

\* cancel_all_callback (lines 59-73) for the caller's own user id.
cancel_all_callback(u) ==
    LET r == cancel_all_tasks(QM, u) IN
    /\ SetQM(r.q)
    /\ cancel_all_called' = cancel_all_called \cup {u}
    /\ drained' = drained \cup Range(queues[u])
    /\ UNCHANGED <<next_id, waiting, loops, enqueued, dequeued, cancel_req>>

\* ---------------------------------------------------------- whole system
Next ==
    \/ \E u \in Users, n \in 1..MaxTasks : process_links(u, n)
    \/ \E u \in Users : start_processing(u)
    \/ \E u \in Users : process_queue_start(u)
    \/ \E u \in Users : \E r \in Running(u), raised \in BOOLEAN :
          process_single_task_start(u, r.task, raised)
    \/ \E u \in Users : \E r \in Running(u), success \in BOOLEAN :
          download_returns(u, r.task, success)
    \/ \E u \in Users : \E r \in Running(u), success \in BOOLEAN, raised \in BOOLEAN :
          upload_returns(u, r.task, success, raised)
    \/ \E u \in Users : \E r \in Running(u) : process_queue_finally(u, r)
    \/ \E u \in Users : cancel_current_callback(u)
    \/ \E u \in Users : cancel_all_callback(u)

Spec == Init /\ [][Next]_vars

\* ------------------------------------------------ the system when calls return
\* Some process_queue coroutine of u takes its next step: the event loop runs
\* a scheduled coroutine, and the downloader, uploader or message edit it
\* awaits returns.
LoopStep(u) ==
    \/ process_queue_start(u)
    \/ \E r \in Running(u), raised \in BOOLEAN :
          process_single_task_start(u, r.task, raised)
    \/ \E r \in Running(u), success \in BOOLEAN :
          download_returns(u, r.task, success)
    \/ \E r \in Running(u), success \in BOOLEAN, raised \in BOOLEAN :
          upload_returns(u, r.task, success, raised)
    \/ \E r \in Running(u) : process_queue_finally(u, r)

\* Users are independent of each other (no operation reads or writes
\* another user's entries), so the system whose calls return is followed
\* for one user, with up to MaxLive links in any number of messages.
LiveUsers == {1}

live_process_links(u, n) ==
    /\ Created + n <= MaxLive
    /\ links_queued(u, n)

NextLive ==
    \/ \E u \in LiveUsers, n \in 1..MaxLive : live_process_links(u, n)
    \/ \E u \in LiveUsers : start_processing(u)
    \/ \E u \in LiveUsers : LoopStep(u)
    \/ \E u \in LiveUsers : cancel_current_callback(u)
    \/ \E u \in LiveUsers : cancel_all_callback(u)

\* Every awaited call returns: a coroutine that can step eventually does, and
\* process_links resumes after its reply was sent.  Messages and cancel
\* callbacks arrive or not, as the user pleases.  The two conditions are
\* WF_vars(LoopStep(u)) and WF_vars(start_processing(u)) with ENABLED written
\* out: a step of LoopStep(u) is possible exactly when u has a coroutine, and
\* one of start_processing(u) exactly when a process_links of u is waiting.
SpecLive ==
    /\ Init /\ [][NextLive]_vars
    /\ \A u \in LiveUsers :
          /\ []<>(loops[u] = EmptyBag) \/ []<><<LoopStep(u)>>_vars
          /\ []<>(waiting[u] = 0) \/ []<><<start_processing(u)>>_vars

\* ------------------------------------------- the manager's FIFO on its own
\* add_task and get_next_task called directly, in any order, for any user.
Enqueue(u) ==
    /\ Created < MaxFifo
    /\ LET t == <<u, next_id[u] + 1>>
           r == add_task(Task(QM, t), t)
       IN /\ SetQM(r.q)
          /\ enqueued' = [enqueued EXCEPT ![u] = Append(@, t)]
    /\ next_id' = [next_id EXCEPT ![u] = @ + 1]
    /\ UNCHANGED <<waiting, loops, dequeued, cancel_req, cancel_all_called,
                   drained>>

DequeueNext(u) ==
    LET r == get_next_task(QM, u) IN
    /\ SetQM(r.q)
    /\ dequeued' = IF r.ret # NoTask THEN [dequeued EXCEPT ![u] = Append(@, r.ret)]
                   ELSE dequeued
    /\ UNCHANGED <<next_id, waiting, loops, enqueued, cancel_req,
                   cancel_all_called, drained>>

NextFifo ==
    \/ \E u \in Users : Enqueue(u)
    \/ \E u \in Users : DequeueNext(u)

SpecFifo == Init /\ [][NextFifo]_vars

\* ------------------------------------- the manager's operations on their own
\* Every QueueManager operation the program calls, and the two status writes
\* of process_single_task, applied directly in any order and for any user.
direct_add_multiple_tasks(u, n) ==
    /\ Created + n <= MaxDirect
    /\ LET ids == [i \in 1..n |-> <<u, next_id[u] + i>>]
       IN SetQM(add_multiple_tasks(NewTasks(QM, ids), ids).q)
    /\ next_id' = [next_id EXCEPT ![u] = @ + n]
    /\ UNCHANGED <<waiting, loops, hist>>

direct_get_next_task(u) ==
    /\ SetQM(get_next_task(QM, u).q)
    /\ UNCHANGED <<next_id, waiting, loops, hist>>

\* task.status = "downloading" (line 245) or "uploading" (line 293), written
\* to the task the caller got from get_next_task.
direct_set_status(u, st) ==
    /\ active_tasks[u] # NoTask
    /\ status' = [status EXCEPT ![active_tasks[u]] = st]
    /\ UNCHANGED <<queues, active_tasks, user_tasks, cancelled_users,
                   processing, next_id, waiting, loops, hist>>

direct_cancel_current_task(u) ==
    /\ SetQM(cancel_current_task(QM, u).q)
    /\ UNCHANGED <<next_id, waiting, loops, hist>>

direct_cancel_all_tasks(u) ==
    /\ SetQM(cancel_all_tasks(QM, u).q)
    /\ UNCHANGED <<next_id, waiting, loops, hist>>

direct_clear_cancelled(u) ==
    /\ is_cancelled(QM, u)
    /\ SetQM(clear_cancelled(QM, u))
    /\ UNCHANGED <<next_id, waiting, loops, hist>>

direct_mark_completed(u, success) ==
    /\ active_tasks[u] # NoTask
    /\ SetQM(Collect(mark_completed(QM, u, active_tasks[u], success), loops))
    /\ UNCHANGED <<next_id, waiting, loops, hist>>

direct_clear_user_tasks(u) ==
    /\ SetQM(Collect(clear_user_tasks(QM, u), loops))
    /\ UNCHANGED <<next_id, waiting, loops, hist>>

NextManager ==
    \/ \E u \in Users, n \in 1..MaxDirect : direct_add_multiple_tasks(u, n)
    \/ \E u \in Users : direct_get_next_task(u)
    \/ \E u \in Users, st \in {"downloading", "uploading"} : direct_set_status(u, st)
    \/ \E u \in Users : direct_cancel_current_task(u)
    \/ \E u \in Users : direct_cancel_all_tasks(u)
    \/ \E u \in Users : direct_clear_cancelled(u)
    \/ \E u \in Users, success \in BOOLEAN : direct_mark_completed(u, success)
    \/ \E u \in Users : direct_clear_user_tasks(u)

SpecManager == Init /\ [][NextManager]_vars

\* ------------------------------------------------ one message of three links
\* Each user sends one message with BatchLinks links and never cancels.
submit_batch(u) ==
    /\ next_id[u] = 0
    /\ links_queued(u, BatchLinks)

NextBatch ==
    \/ \E u \in Users : submit_batch(u)
    \/ \E u \in Users : start_processing(u)
    \/ \E u \in Users : process_queue_start(u)
    \/ \E u \in Users : \E r \in Running(u), raised \in BOOLEAN :
          process_single_task_start(u, r.task, raised)
    \/ \E u \in Users : \E r \in Running(u), success \in BOOLEAN :
          download_returns(u, r.task, success)
    \/ \E u \in Users : \E r \in Running(u), success \in BOOLEAN, raised \in BOOLEAN :
          upload_returns(u, r.task, success, raised)
    \/ \E u \in Users : \E r \in Running(u) : process_queue_finally(u, r)

SpecBatch == Init /\ [][NextBatch]_vars

\* ================================================================ claims
\* The manager and the Task objects in the state a step leads to.
QMnext ==
    [status |-> status', queues |-> queues',
     active_tasks |-> active_tasks', user_tasks |-> user_tasks',
     cancelled_users |-> cancelled_users', processing |-> processing']

RunningNext(u) == BagToSet(loops'[u])

\* The coroutine working on t leaves process_single_task in this step.
Finishes(u, t) ==
    /\ InFlight(u, t)
    /\ Loop("download", t) \notin RunningNext(u)
    /\ Loop("upload", t) \notin RunningNext(u)

\* C1: driven by add_task and get_next_task alone, what get_next_task has
\* returned for a user followed by what is still pending is exactly what was
\* enqueued for that user, in enqueue order; and get_next_task returns None
\* exactly when the user's FIFO is empty at the call.
C1_Fifo ==
    \A u \in Users :
        /\ dequeued[u] \o queues[u] = enqueued[u]
        /\ get_next_task(QM, u).ret = NoTask <=> queues[u] = <<>>

\* C1 witness: two tasks of one user came back in the order they went in,
\* with a third still pending.
C1_Witness ==
    \E u \in Users :
        /\ Len(dequeued[u]) = 2
        /\ Len(queues[u]) = 1
        /\ dequeued[u] = SubSeq(enqueued[u], 1, 2)

\* C2: at most one task per user has status downloading or uploading.
C2_SingleActive ==
    \A u \in Users :
        Cardinality({t \in TaskIds : /\ user_id(t) = u
                                     /\ status[t] \in {"downloading", "uploading"}}) <= 1

\* C3: at most one process_queue coroutine exists per user at any time, so
\* the start decision of process_links never starts a second one.
C3_SingleLoop ==
    \A u \in Users : BagCardinality(loops[u]) <= 1

C5_CountIsTransitions ==
    [][\A u \in Users :
          cancel_all_callback(u) =>
             cancel_all_tasks(QM, u).ret =
                Cardinality({t \in TaskIds : /\ status[t] # "cancelled"
                                             /\ status'[t] = "cancelled"})]_vars

\* C6: cancel_current_callback may run in any state; its call of
\* cancel_current_task(u) returns False and changes nothing of the manager
\* or of any task when the user has no active task; otherwise it returns
\* True, the active task is cancelled and no other task's status changes.
C6_CancelCurrent ==
    \A u \in Users :
        LET r == cancel_current_task(QM, u) IN
        IF active_tasks[u] = NoTask
        THEN /\ r.ret = FALSE
             /\ r.q = QM
        ELSE /\ r.ret = TRUE
             /\ r.q.status[active_tasks[u]] = "cancelled"
             /\ \A t \in TaskIds \ {active_tasks[u]} : r.q.status[t] = status[t]

\* C6 witness: cancel_current_task has cancelled the task in flight of a
\* user who has another task still queued.
C6_Witness ==
    \E u \in Users \ cancel_all_called :
        /\ active_tasks[u] \in cancel_req
        /\ status[active_tasks[u]] = "cancelled"
        /\ \E t \in Range(queues[u]) : status[t] = "queued"

\* C7: a status only moves forward along queued -> downloading -> uploading
\* -> {completed, failed, cancelled}, and a terminal status never changes.
Rank(st) ==
    CASE st = "none"        -> 0
      [] st = "queued"      -> 1
      [] st = "downloading" -> 2
      [] st = "uploading"   -> 3
      [] OTHER              -> 4

C7_Monotonic ==
    [][\A t \in TaskIds :
          (status'[t] # status[t] /\ status'[t] # "gone") =>
             /\ status[t] \notin Terminal
             /\ Rank(status'[t]) > Rank(status[t])]_vars

\* C8: a task that cancel_current_task cancelled while it was downloading
\* or uploading has status cancelled when the loop has finished with it.
C8_CancelledStaysCancelled ==
    [][\A u \in Users, t \in TaskIds :
          (t \in cancel_req /\ Finishes(u, t)) => status'[t] = "cancelled"]_vars

\* C9: when the loop finishes a task that cancel_current_task cancelled in
\* flight, no cancel_all_tasks is outstanding and further tasks are pending,
\* the loop dequeues the next pending task.
C9_BatchContinues ==
    [][\A u \in Users, t \in TaskIds :
          (/\ t \in cancel_req
           /\ Finishes(u, t)
           /\ u \notin cancel_all_called
           /\ queues[u] # <<>>)
          => Loop("edit", Head(queues[u])) \in RunningNext(u)]_vars

\* C10: if the cancellation flag is set when the loop resumes from the
\* status edit with a dequeued task, the loop marks the task cancelled and
\* does not hand it to the downloader.
C10_RecheckAfterDequeue ==
    [][\A u \in Users, t \in TaskIds :
          (/\ Loop("edit", t) \in Running(u)
           /\ is_cancelled(QM, u)
           /\ Loop("edit", t) \notin RunningNext(u))
          => /\ status'[t] = "cancelled"
             /\ Loop("download", t) \notin RunningNext(u)]_vars

\* C11: when every task a user has submitted was still pending when
\* cancel_all_tasks drained the FIFO, all of them have status cancelled,
\* get_user_tasks is empty, and none of them is the active task or the task
\* of any consumer loop (so no downloader or uploader call is made for it),
\* whether or not a loop exists.
C11_CancelBeforeDequeue ==
    \A u \in Users :
        LET ts == Range(user_tasks[u]) IN
        (ts # {} /\ ts \subseteq drained) =>
            /\ \A t \in ts : status[t] = "cancelled"
            /\ get_user_tasks(QM, u) = <<>>
            /\ active_tasks[u] \notin ts
            /\ \A r \in Running(u) : r.task \notin ts
            /\ \A t \in ts : t \notin Range(queues[u])

\* C11 witness: both tasks of a two-link submission were drained while the
\* consumer loop was already scheduled.
C11_Witness ==
    \E u \in Users :
        /\ Len(user_tasks[u]) = 2
        /\ Range(user_tasks[u]) \subseteq drained
        /\ loops[u] # EmptyBag

\* A consumer loop of user u performs its cancellation check (line 176) in
\* this step: a coroutine leaves "created" (its first run), or leaves
\* "download" or "upload" because process_single_task returned (a download
\* that succeeded moves on to "upload" without a check).
LoopChecks(u) ==
    /\ loops'[u] # loops[u]
    /\ \E r \in Running(u) :
          /\ r.pc \in {"created", "download", "upload"}
          /\ CopiesIn(r, loops'[u]) < CopiesIn(r, loops[u])
          /\ ~(r.pc = "download" /\ Loop("upload", r.task) \in RunningNext(u))

\* C12: a task cancel_all_tasks took out of the FIFO is never the task of a
\* consumer loop afterwards, and a loop whose cancellation check finds the
\* flag set by cancel_all_tasks leaves the while loop without dequeuing.
C12_NoPendingStarts ==
    [][\A u \in Users :
          /\ \A t \in drained : \A r \in RunningNext(u) : r.task # t
          /\ (u \in cancel_all_called /\ LoopChecks(u)) =>
                /\ queues'[u] = queues[u]
                /\ \A r \in RunningNext(u) :
                      r.pc = "edit" => r \in Running(u)
                /\ CopiesIn(Loop("summary", NoTask), loops'[u])
                      = CopiesIn(Loop("summary", NoTask), loops[u]) + 1]_vars

\* C12 witness: cancel_all_tasks drained a pending task and the loop has
\* since consumed the flag at its check and left the while loop.
C12_Witness ==
    \E u \in Users :
        /\ \E t \in drained : user_id(t) = u
        /\ u \notin cancelled_users
        /\ Loop("summary", NoTask) \in Running(u)

\* C13: when a consumer loop's cancellation check finds the flag set and the
\* loop stops, no task of that user has status queued, downloading or
\* uploading afterwards.
C13_StopLeavesNoneUnfinished ==
    [][\A u \in Users :
          (is_cancelled(QM, u) /\ LoopChecks(u)) =>
             \A t \in TaskIds :
                user_id(t) = u => status'[t] \notin NonTerminal]_vars

\* C14: when a process_queue coroutine ends, however it left the while
\* loop, the user's processing flag is false and the history list, the
\* cancellation flag, the pending FIFO and the active slot are empty; and
\* the processing flag is true only while a loop that has started exists.
C14_CleanupAlwaysRuns ==
    [][\A u \in Users :
          /\ BagCardinality(loops'[u]) < BagCardinality(loops[u]) =>
                /\ ~processing'[u]
                /\ user_tasks'[u] = <<>>
                /\ u \notin cancelled_users'
                /\ queues'[u] = <<>>
                /\ active_tasks'[u] = NoTask
          /\ processing'[u] =>
                \E r \in RunningNext(u) : r.pc # "created"]_vars

\* C14 witness: a user's batch is over: the loop was started, has ended
\* and the task it was submitted with has been dropped.
C14_Witness ==
    \E u \in Users :
        /\ next_id[u] > 0
        /\ waiting[u] = 0
        /\ loops[u] = EmptyBag
        /\ ~processing[u]
        /\ status[<<u, 1>>] = "gone"

\* C15: when process_queue ends through its except handler with a task in
\* flight, that task has status failed when the finally block runs.
C15_ExceptionMarksFailed ==
    [][\A u \in Users, t \in TaskIds :
          (/\ Loop("error", t) \in Running(u)
           /\ Loop("error", t) \notin RunningNext(u))
          => status[t] = "failed"]_vars

\* C16: when the downloader or the uploader reports failure for a task and
\* no cancellation was requested, the task's status becomes failed, the
\* task leaves the active slot and the loop dequeues the next pending task.
C16_FailureContinues ==
    [][\A u \in Users, t \in TaskIds :
          (/\ \/ download_returns(u, t, FALSE)
              \/ upload_returns(u, t, FALSE, FALSE)
           /\ u \notin cancelled_users
           /\ t \notin cancel_req
           /\ status[t] # "cancelled")
          => /\ status'[t] = "failed"
             /\ active_tasks'[u] # t
             /\ queues[u] # <<>> =>
                   Loop("edit", Head(queues[u])) \in RunningNext(u)]_vars

\* C17: a task whose download and upload succeeded is recorded as completed
\* even when the status-message edit after the upload raises.
C17_EditFailureIgnored ==
    [][\A u \in Users, t \in TaskIds :
          (/\ upload_returns(u, t, TRUE, TRUE)
           /\ u \notin cancelled_users
           /\ t \notin cancel_req
           /\ status[t] = "uploading")
          => status'[t] = "completed"]_vars

\* C18: mark_completed with the active task's id sets that task to
\* completed or failed and empties the active slot; a following
\* mark_completed for the same user with a stale id (a task already
\* finished) or an unknown id changes nothing.
C18_MarkCompletedIdempotent ==
    \A u \in Users :
        active_tasks[u] # NoTask =>
            \A success \in BOOLEAN :
                LET a  == active_tasks[u]
                    q1 == mark_completed(QM, u, a, success)
                IN /\ q1.status[a] = IF success THEN "completed" ELSE "failed"
                   /\ q1.active_tasks[u] = NoTask
                   /\ \A id \in TaskIds, again \in BOOLEAN :
                         q1.status[id] \in Terminal \cup {"none", "gone"} =>
                            mark_completed(q1, u, id, again) = q1

\* C19: get_next_task returns no task while the user's cancellation flag
\* is set.
C19_NoTaskWhileCancelled ==
    \A u \in Users :
        is_cancelled(QM, u) => get_next_task(QM, u).ret = NoTask

\* C20: a task enters a FIFO only when it is created and occurs in it once;
\* a coroutine takes a task only from the head of its user's FIFO, which
\* loses it in the same step; a task is the `task` of at most one
\* coroutine; and a task cancel_all_tasks drained is never the task of a
\* coroutine.
C20_HandedOnce ==
    [][\A u \in Users :
          /\ \A i \in 1..Len(queues'[u]) :
                LET t == queues'[u][i] IN
                /\ t \in Range(queues[u]) \/ status[t] = "none"
                /\ \A j \in 1..Len(queues'[u]) : queues'[u][j] = t => j = i
          /\ \A r \in RunningNext(u) :
                r.task # NoTask =>
                   /\ user_id(r.task) = u
                   /\ CopiesIn(r, loops'[u]) = 1
                   /\ \A r2 \in RunningNext(u) : r2.task = r.task => r2 = r
                   /\ r.task \notin drained'
                   /\ (\A r0 \in Running(u) : r0.task # r.task) =>
                         /\ queues[u] # <<>>
                         /\ r.task = Head(queues[u])
                         /\ queues'[u] = Tail(queues[u])
                         /\ r.task \notin drained]_vars

\* C20 witness: of two pending tasks of one user, a consumer loop holds the
\* one it dequeued and cancel_all_tasks drained the other.
C20_Witness ==
    \E u \in Users :
        /\ \E r \in Running(u) : r.task # NoTask /\ r.task \notin drained
        /\ \E t \in drained : user_id(t) = u

\* C21: when a coroutine takes a task of user u from the FIFO, every other
\* task of u that has left the FIFO before has a terminal status.
C21_Sequential ==
    [][\A u \in Users : \A r \in RunningNext(u) :
          (r.pc = "edit" /\ r \notin Running(u)) =>
             \A t \in TaskIds :
                (/\ user_id(t) = u
                 /\ t # r.task
                 /\ status'[t] \notin {"none", "gone"}
                 /\ t \notin Range(queues'[u]))
                => status'[t] \in Terminal]_vars

\* C22: a task that cancel_current_task cancelled while its download was in
\* flight is not handed to the uploader when the download returns.
C22_CancelAbortsUpload ==
    [][\A u \in Users, t \in TaskIds :
          (t \in cancel_req /\ Loop("download", t) \in Running(u))
          => Loop("upload", t) \notin RunningNext(u)]_vars

\* C23: in every state get_queue_position(u) is the pair of one plus the
\* number of entries of u's history list whose task is completed, failed or
\* cancelled, and the length of the history list.
C23_QueuePosition ==
    \A u \in Users :
        get_queue_position(QM, u) =
            <<Cardinality({i \in 1..Len(user_tasks[u]) :
                             status[user_tasks[u][i]] \in Terminal}) + 1,
              Len(user_tasks[u])>>

\* C23 witness: the position is (2, 2): one of two submitted tasks is
\* finished, the other is not.
C23_Witness ==
    \E u \in Users :
        /\ get_queue_position(QM, u) = <<2, 2>>
        /\ \E t \in Range(user_tasks[u]) : status[t] \in NonTerminal

\* C24: a fresh user who submits three links gets 3 from add_multiple_tasks
\* and position (1, 3); once the first task is completed, the second failed
\* and the third completed, get_queue_position reports (3, 3).
C24_ThreeLinks ==
    \A u \in Users :
        /\ next_id[u] = 0 =>
              LET ids == [i \in 1..BatchLinks |-> <<u, i>>]
                  r   == add_multiple_tasks(NewTasks(QM, ids), ids)
              IN r.ret = 3 /\ get_queue_position(r.q, u) = <<1, 3>>
        /\ (/\ Len(user_tasks[u]) = 3
            /\ status[user_tasks[u][1]] = "completed"
            /\ status[user_tasks[u][2]] = "failed"
            /\ status[user_tasks[u][3]] = "completed")
           => get_queue_position(QM, u) = <<3, 3>>

\* C25: called in any reachable state with n new tasks of one user,
\* add_multiple_tasks returns the number of tasks add_task accepted, which is
\* n, and the tasks are appended, in the order given, to the user's history
\* list and to the user's pending FIFO; what both held before is kept.
C25_AddMultiple ==
    \A u \in Users, n \in 1..MaxDirect :
        LET ids  == [i \in 1..n |-> <<u, next_id[u] + i>>]
            q0   == NewTasks(QM, ids)
            r    == add_multiple_tasks(q0, ids)
            oks  == {i \in 1..n : add_task(q0, ids[i]).ret}
        IN /\ r.ret = Cardinality(oks)
           /\ r.ret = n
           /\ r.q.user_tasks[u] = user_tasks[u] \o ids
           /\ r.q.queues[u] = queues[u] \o ids

\* C25 witness: a state right after add_multiple_tasks was called with two
\* tasks for a user whose flag was set: both tasks are in the history list
\* and in the FIFO, in order.
C25_Witness ==
    \E u \in Users :
        /\ user_tasks[u] = <<(<<u, 1>>), (<<u, 2>>)>>
        /\ queues[u] = user_tasks[u]
        /\ u \in cancelled_users

\* C26: in every state get_user_tasks(u) lists exactly the tasks of u's
\* history list whose status is queued, downloading or uploading, each once
\* and in history order. It is an expression over the manager that yields a
\* list and no new manager state: no task, queue, active slot or flag changes.
C26_UserTasks ==
    \A u \in Users :
        LET ret  == get_user_tasks(QM, u)
            live == {i \in 1..Len(user_tasks[u]) :
                        status[user_tasks[u][i]] \in NonTerminal}
        IN /\ Range(ret) = {user_tasks[u][i] : i \in live}
           /\ Len(ret) = Cardinality(live)
           /\ \A i, j \in 1..Len(ret) : i # j => ret[i] # ret[j]
           /\ \A i, j \in live :
                 i < j => \E a, b \in 1..Len(ret) :
                             a < b /\ ret[a] = user_tasks[u][i]
                                   /\ ret[b] = user_tasks[u][j]

\* C26 witness: the history list holds a finished and an unfinished task, so
\* the filter drops one entry and keeps one.
C26_Witness ==
    \E u \in Users :
        /\ Len(user_tasks[u]) = 2
        /\ Len(get_user_tasks(QM, u)) = 1

\* C27: called in any reachable state, clear_user_tasks(u) leaves u's history
\* list and pending FIFO empty, u's active slot unset and u's cancellation
\* flag cleared; the processing flags, every task status and the history
\* list, FIFO, active slot and cancellation flag of every other user are as
\* before.
C27_ClearUserTasks ==
    [](\A u \in Users :
        LET q == clear_user_tasks(QM, u) IN
        /\ q.user_tasks[u] = <<>>
        /\ q.queues[u] = <<>>
        /\ q.active_tasks[u] = NoTask
        /\ u \notin q.cancelled_users
        /\ q.processing = processing
        /\ q.status = status
        /\ \A v \in Users \ {u} :
              /\ q.user_tasks[v] = user_tasks[v]
              /\ q.queues[v] = queues[v]
              /\ q.active_tasks[v] = active_tasks[v]
              /\ (v \in q.cancelled_users) = (v \in cancelled_users))

\* C27 witness: a user with a pending task, an active task, the flag set and
\* the loop running, while another user's flag is set too: clear_user_tasks
\* has all four parts to wipe and something of another user to keep.
C27_Witness ==
    \E u, v \in Users :
        /\ u # v
        /\ queues[u] # <<>>
        /\ active_tasks[u] # NoTask
        /\ u \in cancelled_users
        /\ processing[u]
        /\ v \in cancelled_users

\* C28: in every reachable state the task in a user's active slot is not
\* an element of that user's pending FIFO.
C28_ActiveNotPending ==
    \A u \in Users :
        active_tasks[u] # NoTask => active_tasks[u] \notin Range(queues[u])

\* C28 witness: a user has an active task while another task is pending.
C28_Witness ==
    \E u \in Users :
        /\ active_tasks[u] # NoTask
        /\ queues[u] # <<>>
        /\ InFlight(u, active_tasks[u])

\* A user the manager holds nothing for: no history, no pending task, no
\* active task.
NoState(u) ==
    /\ user_tasks[u] = <<>>
    /\ queues[u] = <<>>
    /\ active_tasks[u] = NoTask

\* C29: in every reachable state, for a user the manager holds nothing for,
\* cancel_current_task returns False and changes nothing, cancel_all_tasks
\* returns 0, get_next_task returns None and changes nothing, and
\* clear_user_tasks has nothing to wipe; for any user, mark_completed with an
\* id that is not in the user's history list changes nothing. Every one of
\* them has a result and none of them changes a task status.
C29_NoStateNoOp ==
    \A u \in Users :
        /\ NoState(u) =>
              /\ cancel_current_task(QM, u) = [q |-> QM, ret |-> FALSE]
              /\ cancel_all_tasks(QM, u).ret = 0
              /\ cancel_all_tasks(QM, u).q.status = status
              /\ get_next_task(QM, u) = [q |-> QM, ret |-> NoTask]
              /\ clear_user_tasks(QM, u).status = status
        /\ \A task_id \in TaskIds, success \in BOOLEAN :
              task_id \notin Range(user_tasks[u])
              => mark_completed(QM, u, task_id, success) = QM

\* C29 witness: cancel_all_tasks has been called for a user who never
\* submitted anything, while another user's task is being downloaded.
C29_Witness ==
    \E u, v \in Users :
        /\ next_id[u] = 0
        /\ NoState(u)
        /\ u \in cancelled_users
        /\ active_tasks[v] # NoTask
        /\ status[active_tasks[v]] = "downloading"

\* The step is a message of user a or a step of one of a's consumer loops.
StepOf(a) ==
    \/ next_id'[a] # next_id[a]
    \/ waiting'[a] # waiting[a]
    \/ loops'[a] # loops[a]

\* Manager q holds for user b what the manager holds now, and the Task
\* objects created for b have in q the status they have now.
KeptIn(q, b) ==
    /\ q.queues[b] = queues[b]
    /\ q.active_tasks[b] = active_tasks[b]
    /\ q.user_tasks[b] = user_tasks[b]
    /\ (b \in q.cancelled_users) = (b \in cancelled_users)
    /\ q.processing[b] = processing[b]
    /\ \A k \in 1..next_id[b] : q.status[<<b, k>>] = status[<<b, k>>]

\* The step leaves what the manager holds for b, and the status of the Task
\* objects created for b, as they are.
Untouched(b) ==
    /\ queues'[b] = queues[b]
    /\ active_tasks'[b] = active_tasks[b]
    /\ user_tasks'[b] = user_tasks[b]
    /\ (b \in cancelled_users') = (b \in cancelled_users)
    /\ processing'[b] = processing[b]
    /\ \A k \in 1..next_id[b] : status'[<<b, k>>] = status[<<b, k>>]

\* C30: a step performed for user a leaves the pending FIFO, active slot,
\* history list, cancellation flag, processing flag and task statuses of
\* every other user b unchanged: in every reachable state the two cancel
\* operations called for a leave them unchanged, and so does every step of
\* process_links for a and of a's consumer loops, with the manager
\* operations the step calls.
C30_UserIsolation ==
    /\ [](\A a \in Users :
            LET q1 == cancel_current_task(QM, a).q
                q2 == cancel_all_tasks(QM, a).q
            IN \A b \in Users \ {a} : KeptIn(q1, b) /\ KeptIn(q2, b))
    /\ [][\A a \in Users :
             StepOf(a) => \A b \in Users \ {a} : Untouched(b)]_vars

\* C30 witness: two users both have a task in flight, one of them past its
\* download and the other with its cancellation flag set.
C30_Witness ==
    \E a, b \in Users :
        /\ a # b
        /\ active_tasks[a] # NoTask
        /\ status[active_tasks[a]] = "uploading"
        /\ active_tasks[b] # NoTask
        /\ b \in cancelled_users
        /\ processing[a] /\ processing[b]

\* C31: a task that is waiting in a user's FIFO with status queued is
\* never dropped by clear_user_tasks: no step takes it out of existence
\* without having handed it to process_single_task or marked it cancelled.
C31_NoQueuedTaskDiscarded ==
    [][\A u \in Users : \A t \in Range(queues[u]) :
          status[t] = "queued" => status'[t] # "gone"]_vars

\* A consumer loop of u runs its first lines in this step, among them its
\* first is_cancelled check (line 176).
FirstCheck(u) ==
    CopiesIn(Loop("created", NoTask), loops'[u])
        < CopiesIn(Loop("created", NoTask), loops[u])

\* C32: a cancellation issued before a batch was submitted does not reach
\* that batch: when a loop makes its first cancellation check and none of
\* the user's tasks has been touched by a cancel since it was enqueued
\* (there are tasks and all of them are still queued), the flag is not set.
C32_NoStaleCancel ==
    [][\A u \in Users :
          (/\ FirstCheck(u)
           /\ user_tasks[u] # <<>>
           /\ \A t \in Range(user_tasks[u]) : status[t] = "queued")
          => u \notin cancelled_users]_vars

\* C33: is_processing(u) is true in every state in which a process_queue
\* coroutine of u exists (scheduled by asyncio.create_task and not yet past
\* its finally block).
C33_ProcessingWhileLoop ==
    \A u \in Users : loops[u] # EmptyBag => is_processing(QM, u)

\* The user is idle and nothing is left over from earlier batches.
Idle(u) ==
    /\ loops[u] = EmptyBag
    /\ ~is_processing(QM, u)
    /\ queues[u] = <<>>
    /\ active_tasks[u] = NoTask
    /\ ~is_cancelled(QM, u)

\* C34: when every awaited call returns and finitely many links are
\* submitted, a user for whom a consumer loop has been started eventually
\* is idle again: no loop left, processing false, pending FIFO empty, active
\* slot empty and cancellation flag cleared.
C34_ReturnsToIdle ==
    \A u \in Users : (loops[u] # EmptyBag) ~> Idle(u)

\* C34 witness: a user is idle again after all the links the bound allows
\* were submitted and every loop started for them has ended.
C34_Witness ==
    \E u \in Users :
        /\ next_id[u] = MaxLive
        /\ waiting[u] = 0
        /\ Idle(u)

\* C35: in every reachable state every task in a user's pending FIFO, and
\* the task in the user's active slot if there is one, is an element of that
\* user's history list.
C35_PendingAndActiveInHistory ==
    \A u \in Users :
        /\ Range(queues[u]) \subseteq Range(user_tasks[u])
        /\ active_tasks[u] # NoTask => active_tasks[u] \in Range(user_tasks[u])

\* C35 witness: the history list holds a task that is being uploaded and a
\* task that is still pending.
C35_Witness ==
    \E u \in Users :
        /\ Len(user_tasks[u]) = 2
        /\ active_tasks[u] # NoTask
        /\ status[active_tasks[u]] = "uploading"
        /\ Len(queues[u]) = 1

\* C36: in every state get_stats(user) satisfies
\* total = completed + failed + cancelled + pending, pending equals
\* len(get_user_tasks(user)), and the first component of
\* get_queue_position(user) equals completed + failed + cancelled + 1.
C36_StatsConsistent ==
    \A u \in Users :
        LET st == get_stats(QM, u) IN
        /\ st.total = st.completed + st.failed + st.cancelled + st.pending
        /\ st.pending = Len(get_user_tasks(QM, u))
        /\ get_queue_position(QM, u)[1] = st.completed + st.failed + st.cancelled + 1

\* C36 witness: the statistics of a user count a finished task and a task in
\* progress at the same time.
C36_Witness ==
    \E u \in Users :
        LET st == get_stats(QM, u) IN
        /\ st.total = 2
        /\ st.completed + st.failed + st.cancelled = 1
        /\ st.pending = 1
        /\ active_tasks[u] # NoTask
        /\ status[active_tasks[u]] \in {"downloading", "uploading"}

PositionWithinTotal(q, u) ==
    get_queue_position(q, u)[1] <= get_queue_position(q, u)[2]

\* C37: the position reported by get_queue_position(user) never exceeds the
\* total it reports in a state in which the pair is shown to the user.  This
\* is the confirmation of process_links for a freemium user, shown after the
\* usage counter was incremented.
C37_ShownPositionWithinTotal ==
    \A u \in Users : increment_usage_pending(u) => PositionWithinTotal(QM, u)

\* The two places where the pair is read without a suspension after the
\* queue was written: the confirmation for a premium user (lines 133-146) and
\* the progress text of the consumer loop (lines 181-186).
EditEntered(u) ==
    \E t \in TaskIds :
        CopiesIn(Loop("edit", t), loops'[u]) > CopiesIn(Loop("edit", t), loops[u])

C37_ShownWithoutSuspension ==
    [][\A u \in Users :
          (waiting'[u] > waiting[u] \/ EditEntered(u))
          => PositionWithinTotal(QMnext, u)]_vars

\* C38: cancel_all_tasks(user) never changes the status of a task that is
\* already completed or failed, and cancel_current_task(user) changes no
\* status other than the active task's.  Both operations are applied to every
\* reachable state of the whole system and compared on every Task object
\* created so far.
C38_CancelFrame ==
    [](\A u \in Users :
         LET q1 == cancel_current_task(QM, u).q
             q2 == cancel_all_tasks(QM, u).q
             objects  == UNION {{<<v, k>> : k \in 1..next_id[v]} : v \in Users}
             finished == {t \in objects : status[t] \in {"completed", "failed"}}
         IN /\ \A t \in finished : q2.status[t] = status[t]
            /\ \A t \in objects \ {active_tasks[u]} : q1.status[t] = status[t])

\* C38 witness: Cancel All was pressed for a user whose history list holds a
\* finished task next to the task it cancelled.
C38_Witness ==
    \E u \in Users :
        /\ u \in cancel_all_called
        /\ \E t1, t2 \in Range(user_tasks[u]) :
              /\ status[t1] \in {"completed", "failed"}
              /\ status[t2] = "cancelled"

\* C39: a user's active slot is non-empty only while a consumer loop for
\* that user is running: whenever no process_queue coroutine of the user has
\* started and not yet finished, active_tasks has no entry for the user and
\* cancel_current_task returns False.
C39_ActiveOnlyWhileLoop ==
    \A u \in Users :
        (\A r \in Running(u) : r.pc = "created")
        => /\ active_tasks[u] = NoTask
           /\ cancel_current_task(QM, u).ret = FALSE

\* C39 witness: a user is idle again after two tasks went through the
\* active slot.
C39_Witness ==
    \E u \in Users :
        /\ loops[u] = EmptyBag
        /\ waiting[u] = 0
        /\ next_id[u] = 2
        /\ status[<<u, 1>>] = "gone" /\ status[<<u, 2>>] = "gone"
        /\ active_tasks[u] = NoTask
        /\ cancel_current_task(QM, u).ret = FALSE

====
